---- MODULE Spec2Model ----
(***************************************************************************)
(* The resumable keyword-scoring pipeline of the App Store keyword         *)
(* research tool: ASOAnalyzer (scorer), calculateOpportunityScore,         *)
(* analyzeAllKeywords (batch loop with a progress file), the ranking that  *)
(* produces the final artifact, deduplicateKeywords and the top            *)
(* opportunities of the summary report.                                    *)
(*                                                                         *)
(* Spec is the pipeline; ScorerSpec, RankSpec and DedupSpec apply the      *)
(* scorer, the ranking and summary, and the deduplication to bounded       *)
(* inputs. A string is the sequence of its characters.                     *)
(* WebSpec is the web application's database with its analyze and import   *)
(* routes; FairSpec is one run of the pipeline that is not killed.         *)
(*                                                                         *)
(* Nullable JavaScript values are sequences of length at most one:         *)
(* Null is <<>> and a present number v is <<v>>.                           *)
(* Provider scores are decimal numbers with two digits, held in hundredths *)
(* (8.5 is 850); Math.round rounds half up.                                *)
(***************************************************************************)
EXTENDS Integers, Sequences, FiniteSets, TLC

VARIABLES
    keywords,      \* allKeywords of the current run
    progressFile,  \* <app>_progressive.json on disk
    summaryFile,   \* <app>_progressive_summary.txt on disk
    finalFile,     \* <app>_progressive_final.json on disk
    results,       \* the in-memory results array
    i,             \* loop variable of analyzeAllKeywords
    pc,            \* position of the process in analyzeAllKeywords
    loaded,        \* history: the progress file content the run resumed from
    calls,         \* history: provider calls of the run, <<index, response>>
    writeFailure,  \* history: state at the first failed checkpoint write of the run
    runs,          \* history: runs started so far
    faults,        \* history: storage operations that failed so far
    events,        \* history: calls, returns, appends, writes, summaries of the run
    scorerIn,      \* argument of the scorer function under study
    scorerOut,     \* its result
    fnArg,         \* argument of the list function under study
    fnRet,         \* its result
    appsTable,     \* web: the apps table of the database
    keywordsTable, \* web: the keywords table of the database
    resultsDir,    \* web: the results directory the import route reads
    request,       \* web: the analyze request being handled
    replies      \* history: the responses of the routes, in order

pvars == <<keywords, progressFile, summaryFile, finalFile, results, i, pc,
           loaded, calls, writeFailure, runs, faults, events>>
fvars == <<fnArg, fnRet>>
wvars == <<appsTable, keywordsTable, resultsDir, request, replies>>
svars == <<scorerIn, scorerOut, fnArg, fnRet, wvars>>
vars == <<keywords, progressFile, summaryFile, finalFile, results, i, pc,
          loaded, calls, writeFailure, runs, faults, events, scorerIn,
          scorerOut, fnArg, fnRet, appsTable, keywordsTable, resultsDir,
          request, replies>>

----------------------------------------------------------------------------
(* Bounds and program constants *)

MaxKeywords == 3
MaxRuns == 2
MaxFaults == 2
RawStep == 25
MaxResults == 3
MaxRawKeywords == 3

ScoreMax == 100
RawMax == 1000
ProgressEvery == 5
SummaryEvery == 10
TopShown == 20
SelectLimit == 1000
MaxRequests == 2
MaxFolders == 2
MaxGenerated == 2
WorthShown == 15

Null == <<>>
Some(v) == <<v>>
Val(o) == o[1]

\* Math.round of tenths/10: floor(x + 0.5)
MathRound10(tenths) == (tenths + 5) \div 10

----------------------------------------------------------------------------
(* ASOAnalyzer *)

\* Variant: the excellent tier excludes its difficulty boundary
getRecommendationStrictBoundary(trafficScore, difficultyScore) ==
    IF trafficScore >= 25 /\ difficultyScore < 35 THEN "excellent"
    ELSE IF trafficScore >= 15 /\ difficultyScore <= 45 THEN "good"
    ELSE IF trafficScore >= 40 /\ difficultyScore >= 60 THEN "challenging"
    ELSE IF trafficScore <= 15 /\ difficultyScore >= 50 THEN "avoid"
    ELSE "consider"

getRecommendation(trafficScore, difficultyScore) ==
    IF trafficScore >= 25 /\ difficultyScore <= 35 THEN "excellent"
    ELSE IF trafficScore >= 15 /\ difficultyScore <= 45 THEN "good"
    ELSE IF trafficScore >= 40 /\ difficultyScore >= 60 THEN "challenging"
    ELSE IF trafficScore <= 15 /\ difficultyScore >= 50 THEN "avoid"
    ELSE "consider"

\* Math.round(score * 10) of a score held in hundredths
scaleScore(rawHundredths) == MathRound10(rawHundredths)

\* The try block of analyzeKeyword: raised with a message, or the value returned.
NoValue ==
    [keyword |-> 0, trafficScore |-> Null, difficultyScore |-> Null,
     recommendation |-> "none", analysisSucceeded |-> FALSE, error |-> ""]

\* Variant: the difficulty check comes before the traffic check
analyzeKeywordTryDifficultyFirst(keyword, response) ==
    IF response.threw
    THEN [raised |-> TRUE, message |-> response.message, value |-> NoValue]
    ELSE IF ~response.isObject
    THEN [raised |-> TRUE, message |-> "ASO returned empty or invalid response",
          value |-> NoValue]
    ELSE IF response.difficulty = Null
    THEN [raised |-> TRUE,
          message |-> "No difficulty data returned - insufficient ranking data",
          value |-> NoValue]
    ELSE IF response.traffic = Null
    THEN [raised |-> TRUE,
          message |-> "No traffic data returned - keyword may have no search volume",
          value |-> NoValue]
    ELSE LET trafficScore100 == scaleScore(Val(response.traffic))
             difficultyScore100 == scaleScore(Val(response.difficulty))
         IN [raised |-> FALSE, message |-> "",
             value |-> [keyword |-> keyword,
                        trafficScore |-> Some(trafficScore100),
                        difficultyScore |-> Some(difficultyScore100),
                        recommendation |->
                            getRecommendation(trafficScore100, difficultyScore100),
                        analysisSucceeded |-> TRUE,
                        error |-> ""]]

analyzeKeywordTry(keyword, response) ==
    IF response.threw
    THEN [raised |-> TRUE, message |-> response.message, value |-> NoValue]
    ELSE IF ~response.isObject
    THEN [raised |-> TRUE, message |-> "ASO returned empty or invalid response",
          value |-> NoValue]
    ELSE IF response.traffic = Null
    THEN [raised |-> TRUE,
          message |-> "No traffic data returned - keyword may have no search volume",
          value |-> NoValue]
    ELSE IF response.difficulty = Null
    THEN [raised |-> TRUE,
          message |-> "No difficulty data returned - insufficient ranking data",
          value |-> NoValue]
    ELSE LET trafficScore100 == scaleScore(Val(response.traffic))
             difficultyScore100 == scaleScore(Val(response.difficulty))
         IN [raised |-> FALSE, message |-> "",
             value |-> [keyword |-> keyword,
                        trafficScore |-> Some(trafficScore100),
                        difficultyScore |-> Some(difficultyScore100),
                        recommendation |->
                            getRecommendation(trafficScore100, difficultyScore100),
                        analysisSucceeded |-> TRUE,
                        error |-> ""]]

\* Variant: the catch block rethrows
analyzeKeywordCatchRethrows(keyword, message) ==
    [raised |-> TRUE, message |-> message, value |-> NoValue]

\* Variant: the catch block reports zero scores instead of null
analyzeKeywordCatchZeroScores(keyword, message) ==
    [raised |-> FALSE, message |-> "",
     value |-> [keyword |-> keyword, trafficScore |-> Some(0),
                difficultyScore |-> Some(0),
                recommendation |-> "analysis_failed", analysisSucceeded |-> FALSE,
                error |-> message]]

\* The catch block of analyzeKeyword
analyzeKeywordCatch(keyword, message) ==
    [raised |-> FALSE, message |-> "",
     value |-> [keyword |-> keyword, trafficScore |-> Null, difficultyScore |-> Null,
                recommendation |-> "analysis_failed", analysisSucceeded |-> FALSE,
                error |-> message]]

analyzeKeyword(keyword, response) ==
    LET t == analyzeKeywordTry(keyword, response)
    IN IF t.raised THEN analyzeKeywordCatch(keyword, t.message) ELSE t

----------------------------------------------------------------------------
(* main.js: scoring of one keyword *)

\* Variant: Math.floor instead of Math.round
calculateOpportunityScoreFloors(trafficScore, difficultyScore) ==
    IF trafficScore = Null \/ difficultyScore = Null
    THEN Null
    ELSE Some((Val(trafficScore) * 6 + (100 - Val(difficultyScore)) * 4) \div 10)

\* Math.round(traffic * 0.6 + (100 - difficulty) * 0.4); the exact sum is a
\* multiple of 0.2, so it is never a rounding tie and is computed here in tenths.
calculateOpportunityScore(trafficScore, difficultyScore) ==
    IF trafficScore = Null \/ difficultyScore = Null
    THEN Null
    ELSE Some(MathRound10(Val(trafficScore) * 6 + (100 - Val(difficultyScore)) * 4))

\* The analyze route's own analyzeKeyword: null, or the scored keyword.
\* A score of null multiplies to 0: Math.round(null * 10) is 0
routeNull ==
    [isNull |-> TRUE, traffic |-> 0, difficulty |-> 0, opportunity |-> 0,
     recommendation |-> "none"]

routeAnalyzeKeyword(response) ==
    IF response.threw
    THEN routeNull
    ELSE IF ~response.isObject \/ ~response.hasTraffic \/ ~response.hasDifficulty
    THEN routeNull
    ELSE LET trafficScore ==
                 IF response.traffic = Null THEN 0
                 ELSE MathRound10(Val(response.traffic))
             difficultyScore ==
                 IF response.difficulty = Null THEN 0
                 ELSE MathRound10(Val(response.difficulty))
             recommendation ==
                 IF trafficScore >= 25 /\ difficultyScore <= 35 THEN "excellent"
                 ELSE IF trafficScore >= 15 /\ difficultyScore <= 45 THEN "good"
                 ELSE IF trafficScore >= 40 /\ difficultyScore >= 60 THEN "challenging"
                 ELSE IF trafficScore <= 15 /\ difficultyScore >= 50 THEN "avoid"
                 ELSE "consider"
         IN [isNull |-> FALSE,
             traffic |-> trafficScore,
             difficulty |-> difficultyScore,
             opportunity |->
                 MathRound10(trafficScore * 6 + (100 - difficultyScore) * 4),
             recommendation |-> recommendation]

\* analysis.error || null
orNull(message) == IF message = "" THEN "null" ELSE message

\* Variant: the success test looks only for undefined scores, never for a failure
keywordResultNoFailureTest(keyword, analysis) ==
    [keyword |-> keyword,
     traffic |-> analysis.trafficScore,
     difficulty |-> analysis.difficultyScore,
     opportunity |->
         calculateOpportunityScore(analysis.trafficScore, analysis.difficultyScore),
     recommendation |-> analysis.recommendation,
     analysisSucceeded |-> TRUE,
     error |-> orNull(analysis.error)]

\* Variant: a failed analysis gets opportunity 0 instead of null
keywordResultZeroOpportunity(keyword, analysis) ==
    LET analysisSucceeded == /\ analysis.analysisSucceeded # FALSE
                             /\ analysis.trafficScore # Null
                             /\ analysis.difficultyScore # Null
    IN [keyword |-> keyword,
        traffic |-> analysis.trafficScore,
        difficulty |-> analysis.difficultyScore,
        opportunity |->
            IF analysisSucceeded
            THEN calculateOpportunityScore(analysis.trafficScore,
                                           analysis.difficultyScore)
            ELSE Some(0),
        recommendation |-> analysis.recommendation,
        analysisSucceeded |-> analysisSucceeded,
        error |-> orNull(analysis.error)]

\* The keywordResult built in the try block of the loop
keywordResult(keyword, analysis) ==
    LET analysisSucceeded == /\ analysis.analysisSucceeded # FALSE
                             /\ analysis.trafficScore # Null
                             /\ analysis.difficultyScore # Null
        opportunityScore ==
            IF analysisSucceeded
            THEN calculateOpportunityScore(analysis.trafficScore, analysis.difficultyScore)
            ELSE Null
    IN [keyword |-> keyword,
        traffic |-> analysis.trafficScore,
        difficulty |-> analysis.difficultyScore,
        opportunity |-> opportunityScore,
        recommendation |-> analysis.recommendation,
        analysisSucceeded |-> analysisSucceeded,
        error |-> orNull(analysis.error)]

\* The keywordResult built in the catch block of the loop
failureResult(keyword, message) ==
    [keyword |-> keyword, traffic |-> Null, difficulty |-> Null, opportunity |-> Null,
     recommendation |-> "analysis_failed", analysisSucceeded |-> FALSE,
     error |-> message]

----------------------------------------------------------------------------
(* main.js: keywords. A string is the sequence of its characters. *)

isSpace(c) == c \in {" ", "\t"}

toLowerCase(str) ==
    [j \in 1..Len(str) |->
        IF str[j] = "A" THEN "a" ELSE IF str[j] = "B" THEN "b" ELSE str[j]]

RECURSIVE trimStart(_)
trimStart(str) ==
    IF str # <<>> /\ isSpace(Head(str)) THEN trimStart(Tail(str)) ELSE str

RECURSIVE trimEnd(_)
trimEnd(str) ==
    IF str # <<>> /\ isSpace(str[Len(str)])
    THEN trimEnd(SubSeq(str, 1, Len(str) - 1))
    ELSE str

trim(str) == trimEnd(trimStart(str))

\* Variant: replace(/\s\s/g, ' '), which replaces whitespace two by two
RECURSIVE collapsePairs(_)
collapsePairs(str) ==
    IF str = <<>> THEN <<>>
    ELSE IF Len(str) >= 2 /\ isSpace(str[1]) /\ isSpace(str[2])
    THEN <<" ">> \o collapsePairs(Tail(Tail(str)))
    ELSE <<Head(str)>> \o collapsePairs(Tail(str))

\* replace(/\s+/g, ' ')
RECURSIVE collapseSpaces(_)
collapseSpaces(str) ==
    IF str = <<>> THEN <<>>
    ELSE IF isSpace(Head(str))
    THEN <<" ">> \o collapseSpaces(trimStart(Tail(str)))
    ELSE <<Head(str)>> \o collapseSpaces(Tail(str))

\* keyword.toLowerCase().trim().replace(/\s+/g, ' ')
normalized(keyword) == collapseSpaces(trim(toLowerCase(keyword)))

\* Variant: the loop keeps an entry that normalizes to the empty string
RECURSIVE dedupLoopKeepsEmpty(_, _, _)
dedupLoopKeepsEmpty(kws, seen, unique) ==
    IF kws = <<>> THEN unique
    ELSE IF normalized(Head(kws)) \notin seen
    THEN dedupLoopKeepsEmpty(Tail(kws), seen \cup {normalized(Head(kws))},
                             Append(unique, normalized(Head(kws))))
    ELSE dedupLoopKeepsEmpty(Tail(kws), seen, unique)

\* The for loop of deduplicateKeywords over the remaining keywords
RECURSIVE dedupLoop(_, _, _)
dedupLoop(kws, seen, unique) ==
    IF kws = <<>> THEN unique
    ELSE IF normalized(Head(kws)) \notin seen /\ Len(normalized(Head(kws))) > 0
    THEN dedupLoop(Tail(kws), seen \cup {normalized(Head(kws))},
                   Append(unique, normalized(Head(kws))))
    ELSE dedupLoop(Tail(kws), seen, unique)

deduplicateKeywords(kws) == dedupLoop(kws, {}, <<>>)

\* getAutocompleteSuggestions: Array.from of a Set of s.toLowerCase().trim(),
\* which keeps the order of first insertion
RECURSIVE suggestionLoop(_, _)
suggestionLoop(found, suggestions) ==
    IF found = <<>> THEN suggestions
    ELSE IF \E j \in 1..Len(suggestions) : suggestions[j] = trim(toLowerCase(Head(found)))
    THEN suggestionLoop(Tail(found), suggestions)
    ELSE suggestionLoop(Tail(found), Append(suggestions, trim(toLowerCase(Head(found)))))

getAutocompleteSuggestions(found) == suggestionLoop(found, <<>>)

\* combinedKeywords of analyzeApp from the raw generated keywords and the
\* strings the suggestion service returned
combinedKeywords(allRawKeywords, found) ==
    deduplicateKeywords(deduplicateKeywords(allRawKeywords)
                            \o getAutocompleteSuggestions(found))

----------------------------------------------------------------------------
(* main.js: files *)

AbsentFile ==
    [state |-> "absent", lastAnalyzedIndex |-> 0 - 1, totalKeywords |-> 0,
     results |-> <<>>]
CorruptFile ==
    [state |-> "corrupt", lastAnalyzedIndex |-> 0 - 1, totalKeywords |-> 0,
     results |-> <<>>]

\* progressData as JSON.stringify writes it and JSON.parse reads it back: every
\* field is a finite number, a string, a boolean or null, which JSON preserves.
progressData(index, allKeywords, res) ==
    [state |-> "checkpoint", lastAnalyzedIndex |-> index,
     totalKeywords |-> Len(allKeywords), results |-> res]

\* Variant: the run resumes at lastAnalyzedIndex itself
loadProgressFromLastIndex(file) ==
    IF file.state = "checkpoint"
    THEN [results |-> file.results, startIndex |-> file.lastAnalyzedIndex]
    ELSE [results |-> <<>>, startIndex |-> 0]

\* The resume block: what the run starts from, given the progress file
loadProgress(file) ==
    IF file.state = "checkpoint"
    THEN [results |-> file.results, startIndex |-> file.lastAnalyzedIndex + 1]
    ELSE [results |-> <<>>, startIndex |-> 0]

countTier(s, tier) == Len(SelectSeq(s, LAMBDA k : k.recommendation = tier))

\* Variant: the tiers and the analyzed count are taken over all results
summaryCountsNoFilter(res) ==
    LET successfulResults == res
        failedResults == SelectSeq(res, LAMBDA r : r.analysisSucceeded = FALSE)
    IN [total |-> Len(res),
        analyzed |-> Len(successfulResults),
        failed |-> Len(failedResults),
        excellent |-> countTier(successfulResults, "excellent"),
        good |-> countTier(successfulResults, "good"),
        consider |-> countTier(successfulResults, "consider"),
        challenging |-> countTier(successfulResults, "challenging"),
        avoid |-> countTier(successfulResults, "avoid")]

summaryCounts(res) ==
    LET successfulResults == SelectSeq(res, LAMBDA r : r.analysisSucceeded # FALSE)
        failedResults == SelectSeq(res, LAMBDA r : r.analysisSucceeded = FALSE)
    IN [total |-> Len(res),
        analyzed |-> Len(successfulResults),
        failed |-> Len(failedResults),
        excellent |-> countTier(successfulResults, "excellent"),
        good |-> countTier(successfulResults, "good"),
        consider |-> countTier(successfulResults, "consider"),
        challenging |-> countTier(successfulResults, "challenging"),
        avoid |-> countTier(successfulResults, "avoid")]

generateSummaryData(res, allKeywords) ==
    [state |-> "written", totalKeywords |-> Len(allKeywords), analyzedSoFar |-> Len(res),
     summary |-> summaryCounts(res)]

\* generateSummaryText: the entries listed under TOP KEYWORD OPPORTUNITIES, the
\* first three of which get the medals
topOpportunities(keywordAnalysis) ==
    LET successfulAnalyses ==
            SelectSeq(keywordAnalysis, LAMBDA k : k.analysisSucceeded # FALSE)
        top == SelectSeq(successfulAnalyses,
                         LAMBDA k : k.recommendation \in {"excellent", "good"})
    IN SubSeq(top, 1, IF Len(top) < TopShown THEN Len(top) ELSE TopShown)

\* generateSummaryText: the entries listed under WORTH CONSIDERING
worthConsidering(keywordAnalysis) ==
    LET successfulAnalyses ==
            SelectSeq(keywordAnalysis, LAMBDA k : k.analysisSucceeded # FALSE)
        consider == SelectSeq(successfulAnalyses, LAMBDA k : k.recommendation = "consider")
    IN SubSeq(consider, 1, IF Len(consider) < WorthShown THEN Len(consider) ELSE WorthShown)

NoSummary ==
    [state |-> "absent", totalKeywords |-> 0, analyzedSoFar |-> 0,
     summary |-> summaryCounts(<<>>)]

\* (i + 1) % 5 === 0 || last, and inside it (i + 1) % 10 === 0 || last
summaryDue(index, n) ==
    /\ ((index + 1) % ProgressEvery = 0 \/ index = n - 1)
    /\ ((index + 1) % SummaryEvery = 0 \/ index = n - 1)

\* b.opportunity || 0
sortKey(r) == IF r.opportunity = Null THEN 0 ELSE Val(r.opportunity)

\* Variant: a sort that is not stable, equal keys end up in reverse order
RECURSIVE insertByOpportunityUnstable(_, _)
insertByOpportunityUnstable(sorted, r) ==
    IF sorted = <<>> THEN <<r>>
    ELSE IF sortKey(Head(sorted)) > sortKey(r)
    THEN <<Head(sorted)>> \o insertByOpportunityUnstable(Tail(sorted), r)
    ELSE <<r>> \o sorted

\* Array.prototype.sort with (a, b) => key(b) - key(a): stable, descending
RECURSIVE insertByOpportunity(_, _)
insertByOpportunity(sorted, r) ==
    IF sorted = <<>> THEN <<r>>
    ELSE IF sortKey(Head(sorted)) >= sortKey(r)
    THEN <<Head(sorted)>> \o insertByOpportunity(Tail(sorted), r)
    ELSE <<r>> \o sorted

RECURSIVE sortByOpportunity(_)
sortByOpportunity(s) ==
    IF s = <<>> THEN <<>>
    ELSE insertByOpportunity(sortByOpportunity(SubSeq(s, 1, Len(s) - 1)), s[Len(s)])

sortedResults(res) ==
    LET successfulResults == SelectSeq(res, LAMBDA r : r.analysisSucceeded # FALSE)
        failedResults == SelectSeq(res, LAMBDA r : r.analysisSucceeded = FALSE)
    IN sortByOpportunity(successfulResults) \o failedResults

\* completedAt is the time of the write, told apart here by the number of the
\* run that wrote it
finalData(res, allKeywords, now) ==
    [state |-> "written", completedAt |-> now, totalKeywords |-> Len(allKeywords),
     results |-> sortedResults(res), summary |-> summaryCounts(res)]

NoFinal ==
    [state |-> "absent", completedAt |-> 0, totalKeywords |-> 0, results |-> <<>>,
     summary |-> summaryCounts(<<>>)]

----------------------------------------------------------------------------
(* Inputs *)

\* Deduplicated keyword lists, which the generator makes anew in every run:
\* none, the first, or all of the keywords 1, 2, ..., or all of them in the
\* opposite order
KeywordLists ==
    { [k \in 1..n |-> k] : n \in {0, 1, MaxKeywords} }
        \cup { [k \in 1..MaxKeywords |-> MaxKeywords + 1 - k] }

\* A provider response: traffic and difficulty are the scores, Null when the
\* score is undefined or null; hasTraffic and hasDifficulty tell whether the
\* response has the traffic and difficulty objects that hold them
Scores(traffic, difficulty) ==
    [threw |-> FALSE, message |-> "", isObject |-> TRUE,
     traffic |-> Some(traffic), difficulty |-> Some(difficulty),
     hasTraffic |-> TRUE, hasDifficulty |-> TRUE]
Throws(message) ==
    [threw |-> TRUE, message |-> message, isObject |-> FALSE,
     traffic |-> Null, difficulty |-> Null,
     hasTraffic |-> FALSE, hasDifficulty |-> FALSE]
NotObject ==
    [threw |-> FALSE, message |-> "", isObject |-> FALSE,
     traffic |-> Null, difficulty |-> Null,
     hasTraffic |-> FALSE, hasDifficulty |-> FALSE]
\* A response without the traffic or difficulty object of a score that is Null
Missing(traffic, difficulty) ==
    [threw |-> FALSE, message |-> "", isObject |-> TRUE,
     traffic |-> traffic, difficulty |-> difficulty,
     hasTraffic |-> traffic # Null, hasDifficulty |-> difficulty # Null]
\* A response with both objects, in which a score that is Null is score: null
NullScore(traffic, difficulty) ==
    [threw |-> FALSE, message |-> "", isObject |-> TRUE,
     traffic |-> traffic, difficulty |-> difficulty,
     hasTraffic |-> TRUE, hasDifficulty |-> TRUE]

\* parseInt(appId, 10) of the command-line argument: NaN (Null) or an integer
AppIds == { Null, Some(0 - 1), Some(0), Some(1) }

\* collectAppData: !(isNaN(numericAppId) || numericAppId <= 0)
validAppId(numericAppId) == numericAppId # Null /\ Val(numericAppId) > 0

\* What the provider answers during a run
ProviderResponses ==
    { Throws("Request failed"), Scores(850, 320) }

providerFailed(response) ==
    \/ response.threw
    \/ ~response.isObject
    \/ response.traffic = Null
    \/ response.difficulty = Null

WriteError == "ENOSPC: no space left on device, write"

NoWriteFailure ==
    [failed |-> FALSE, results |-> <<>>, file |-> AbsentFile, nCalls |-> 0]

\* Arguments and results of the scorer functions taken on their own
NoArgs == [kind |-> "none", traffic |-> Null, difficulty |-> Null, response |-> NotObject]

NotApplied ==
    [fn |-> "none", recommendation |-> "none", opportunity |-> Null,
     analysis |-> [raised |-> FALSE, message |-> "", value |-> NoValue],
     result |-> failureResult(0, ""),
     route |-> routeNull]

NullableScores == { Null } \cup { Some(v) : v \in 0..ScoreMax }

RawScores == { h \in 0..RawMax : h % RawStep = 0 }
\* A score the provider may also send: a number above its 0-10 scale
RawScoresBeyond == { RawMax + RawStep }
NullableRawScores == { Null } \cup { Some(h) : h \in RawScores \cup RawScoresBeyond }

AllResponses ==
    { Throws("Request failed"), Throws(""), NotObject }
        \cup { Missing(t, d) : t \in NullableRawScores, d \in NullableRawScores }
        \cup { NullScore(t, d) : t \in NullableRawScores, d \in NullableRawScores }

\* Arguments and results of the list functions taken on their own
NoList == [kind |-> "none", list |-> <<>>, suggestions |-> <<>>]
NotRun == [fn |-> "none", out |-> <<>>, combined |-> <<>>]

ScorerArgs ==
    { [kind |-> "scores", traffic |-> t, difficulty |-> d, response |-> NotObject] :
        t \in NullableScores, d \in NullableScores }
        \cup { [kind |-> "response", traffic |-> Null, difficulty |-> Null,
                response |-> r] : r \in AllResponses }

----------------------------------------------------------------------------
(* Web application: the state before any request *)

\* The apps table: `seeded` rows of other apps inserted earlier, then the rows
\* of the apps under study in insertion order; ids autoincrement
emptyApps(seeded) == [seeded |-> seeded, rows |-> <<>>]

NoDirectory == [exists |-> FALSE, folders |-> <<>>]

NoRequest == [pc |-> "none", numericId |-> 0, newApp |-> 0, keywordResults |-> <<>>]

\* No request was made
WebIdle ==
    /\ appsTable = emptyApps(0)
    /\ keywordsTable = <<>>
    /\ resultsDir = NoDirectory
    /\ request = NoRequest
    /\ replies = <<>>

----------------------------------------------------------------------------
(* analyzeAllKeywords *)

Running == {"loop", "calling", "write", "summary", "catchWrite"}

Init ==
    /\ keywords = <<>>
    /\ progressFile = AbsentFile
    /\ summaryFile = NoSummary
    /\ finalFile = NoFinal
    /\ results = <<>>
    /\ i = 0
    /\ pc = "idle"
    /\ loaded = AbsentFile
    /\ calls = <<>>
    /\ writeFailure = NoWriteFailure
    /\ runs = 0
    /\ faults = 0
    /\ events = <<>>
    /\ scorerIn = NoArgs
    /\ scorerOut = NotApplied
    /\ fnArg = NoList
    /\ fnRet = NotRun
    /\ WebIdle

\* analyzeApp with an app ID that collectAppData refuses: the error leaves
\* analyzeApp before any keyword is generated
RejectAppId ==
    /\ pc = "idle"
    /\ runs < MaxRuns
    /\ runs' = runs + 1
    /\ \E numericAppId \in AppIds : ~validAppId(numericAppId)
    /\ pc' = "rejected"
    /\ UNCHANGED <<keywords, progressFile, summaryFile, finalFile, results, i, loaded,
                   calls, writeFailure, faults, events, svars>>

\* Variant: JSON.parse outside the try, a progress file that does not parse
\* ends the run
StartRunParseFatal ==
    /\ pc = "idle"
    /\ runs < MaxRuns
    /\ runs' = runs + 1
    /\ \E numericAppId \in AppIds : validAppId(numericAppId)
    /\ \E allKeywords \in KeywordLists : keywords' = allKeywords
    /\ loaded' = progressFile
    /\ results' = loadProgress(progressFile).results
    /\ i' = loadProgress(progressFile).startIndex
    /\ pc' = IF progressFile.state = "corrupt" THEN "aborted" ELSE "loop"
    /\ UNCHANGED <<events, progressFile, summaryFile, finalFile, calls, writeFailure,
                   faults, svars>>

\* Entry up to the loop: read the progress file if there is one
StartRun ==
    /\ pc = "idle"
    /\ runs < MaxRuns
    /\ runs' = runs + 1
    /\ \E numericAppId \in AppIds : validAppId(numericAppId)
    /\ \E allKeywords \in KeywordLists : keywords' = allKeywords
    /\ loaded' = progressFile
    /\ results' = loadProgress(progressFile).results
    /\ i' = loadProgress(progressFile).startIndex
    /\ pc' = "loop"
    /\ UNCHANGED <<events, progressFile, summaryFile, finalFile, calls, writeFailure, faults,
                   svars>>

\* Loop test and the start of await analyzer.analyzeKeyword(keyword)
StartCall ==
    /\ UNCHANGED <<runs, faults>>
    /\ pc = "loop"
    /\ i < Len(keywords)
    /\ pc' = "calling"
    /\ events' = Append(events, <<"call", i>>)
    /\ UNCHANGED <<keywords, progressFile, summaryFile, finalFile, results, i, loaded,
                   calls, writeFailure, svars>>

\* The awaited call settles; loop body up to results.push
CallProvider ==
    /\ UNCHANGED <<runs, faults>>
    /\ pc = "calling"
    /\ \E response \in ProviderResponses :
         LET keyword == keywords[i + 1]
             analysis == analyzeKeyword(keyword, response)
         IN /\ calls' = Append(calls, <<i, response>>)
            /\ IF analysis.raised
               THEN /\ results' = Append(results, failureResult(keyword, analysis.message))
                    /\ pc' = "catchWrite"
               ELSE /\ results' = Append(results, keywordResult(keyword, analysis.value))
                    /\ pc' = "write"
    /\ events' = events \o <<<<"return", i>>, <<"append", i>>>>
    /\ UNCHANGED <<keywords, progressFile, summaryFile, finalFile, i, loaded,
                   writeFailure, svars>>

\* What a failed or interrupted writeFileSync leaves: the old file, or a
\* truncated one
AfterBadWrite(file, torn) == IF torn THEN CorruptFile ELSE file

noteWriteFailure ==
    IF writeFailure.failed THEN writeFailure
    ELSE [failed |-> TRUE, results |-> results, file |-> progressFile,
          nCalls |-> Len(calls)]

\* Variant: the progress file is written only along with the summary
WriteProgressBatched ==
    /\ UNCHANGED <<runs, faults>>
    /\ pc = "write"
    /\ IF summaryDue(i, Len(keywords))
       THEN /\ progressFile' = progressData(i, keywords, results)
            /\ events' = Append(events, <<"write", i>>)
            /\ pc' = "summary" /\ i' = i
       ELSE /\ progressFile' = progressFile
            /\ events' = events
            /\ pc' = "loop" /\ i' = i + 1
    /\ UNCHANGED <<keywords, summaryFile, finalFile, results, loaded, calls,
                   writeFailure, svars>>

\* fs.writeFileSync(progressFile, ...) in the try block succeeds
WriteProgressOk ==
    /\ UNCHANGED <<runs, faults>>
    /\ pc = "write"
    /\ progressFile' = progressData(i, keywords, results)
    /\ IF summaryDue(i, Len(keywords))
       THEN pc' = "summary" /\ i' = i
       ELSE pc' = "loop" /\ i' = i + 1
    /\ events' = Append(events, <<"write", i>>)
    /\ UNCHANGED <<keywords, summaryFile, finalFile, results, loaded, calls,
                   writeFailure, svars>>

\* fs.writeFileSync in the try block throws: the catch block pushes a failure
WriteProgressFails ==
    /\ faults < MaxFaults
    /\ faults' = faults + 1
    /\ UNCHANGED runs
    /\ pc = "write"
    /\ \E torn \in BOOLEAN : progressFile' = AfterBadWrite(progressFile, torn)
    /\ writeFailure' = noteWriteFailure
    /\ results' = Append(results, failureResult(keywords[i + 1], WriteError))
    /\ pc' = "catchWrite"
    /\ events' = events \o <<<<"write", i>>, <<"append", i>>>>
    /\ UNCHANGED <<keywords, summaryFile, finalFile, i, loaded, calls, svars>>

\* updateSummaryFile in the try block succeeds
UpdateSummaryOk ==
    /\ UNCHANGED <<runs, faults>>
    /\ pc = "summary"
    /\ summaryFile' = generateSummaryData(results, keywords)
    /\ i' = i + 1
    /\ pc' = "loop"
    /\ events' = Append(events, <<"summary", i>>)
    /\ UNCHANGED <<keywords, progressFile, finalFile, results, loaded, calls,
                   writeFailure, svars>>

\* updateSummaryFile throws: the catch block pushes a failure
UpdateSummaryFails ==
    /\ faults < MaxFaults
    /\ faults' = faults + 1
    /\ UNCHANGED runs
    /\ pc = "summary"
    /\ results' = Append(results, failureResult(keywords[i + 1], WriteError))
    /\ pc' = "catchWrite"
    /\ events' = Append(events, <<"append", i>>)
    /\ UNCHANGED <<keywords, progressFile, summaryFile, finalFile, i, loaded, calls,
                   writeFailure, svars>>

\* Variant: after the catch block the loop goes on at the same index
CatchWriteOkSameIndex ==
    /\ UNCHANGED <<runs, faults>>
    /\ pc = "catchWrite"
    /\ progressFile' = progressData(i, keywords, results)
    /\ i' = i
    /\ pc' = "loop"
    /\ events' = Append(events, <<"write", i>>)
    /\ UNCHANGED <<keywords, summaryFile, finalFile, results, loaded, calls,
                   writeFailure, svars>>

\* fs.writeFileSync(progressFile, ...) in the catch block succeeds
CatchWriteOk ==
    /\ UNCHANGED <<runs, faults>>
    /\ pc = "catchWrite"
    /\ progressFile' = progressData(i, keywords, results)
    /\ i' = i + 1
    /\ pc' = "loop"
    /\ events' = Append(events, <<"write", i>>)
    /\ UNCHANGED <<keywords, summaryFile, finalFile, results, loaded, calls,
                   writeFailure, svars>>

\* fs.writeFileSync in the catch block throws: the error leaves the function
CatchWriteFails ==
    /\ faults < MaxFaults
    /\ faults' = faults + 1
    /\ UNCHANGED runs
    /\ pc = "catchWrite"
    /\ \E torn \in BOOLEAN : progressFile' = AfterBadWrite(progressFile, torn)
    /\ writeFailure' = noteWriteFailure
    /\ pc' = "aborted"
    /\ events' = Append(events, <<"write", i>>)
    /\ UNCHANGED <<keywords, summaryFile, finalFile, results, i, loaded, calls, svars>>

\* After the loop: rank, write the final file, return
FinishOk ==
    /\ UNCHANGED <<runs, faults>>
    /\ pc = "loop"
    /\ i >= Len(keywords)
    /\ finalFile' = finalData(results, keywords, runs)
    /\ pc' = "completed"
    /\ UNCHANGED <<events, keywords, progressFile, summaryFile, results, i, loaded, calls,
                   writeFailure, svars>>

\* The final write throws
FinishFails ==
    /\ faults < MaxFaults
    /\ faults' = faults + 1
    /\ UNCHANGED runs
    /\ pc = "loop"
    /\ i >= Len(keywords)
    /\ pc' = "aborted"
    /\ UNCHANGED <<events, keywords, progressFile, summaryFile, finalFile, results, i, loaded,
                   calls, writeFailure, svars>>

ForgetRun ==
    /\ keywords' = <<>>
    /\ results' = <<>>
    /\ i' = 0
    /\ pc' = "idle"
    /\ loaded' = AbsentFile
    /\ calls' = <<>>
    /\ writeFailure' = NoWriteFailure
    /\ events' = <<>>

\* The process is killed between two file operations
Interrupt ==
    /\ UNCHANGED <<runs, faults>>
    /\ pc \in Running
    /\ ForgetRun
    /\ UNCHANGED <<progressFile, summaryFile, finalFile, svars>>

\* The process is killed inside a write of the progress file
InterruptWrite ==
    /\ UNCHANGED <<runs, faults>>
    /\ pc \in {"write", "catchWrite"}
    /\ progressFile' = CorruptFile
    /\ ForgetRun
    /\ UNCHANGED <<summaryFile, finalFile, svars>>

\* The process ends after analyzeAllKeywords returned or threw
Exit ==
    /\ UNCHANGED <<runs, faults>>
    /\ pc \in {"completed", "aborted", "rejected"}
    /\ ForgetRun
    /\ UNCHANGED <<progressFile, summaryFile, finalFile, svars>>

Next ==
    \/ RejectAppId
    \/ StartRun
    \/ StartCall
    \/ CallProvider
    \/ WriteProgressOk
    \/ WriteProgressFails
    \/ UpdateSummaryOk
    \/ UpdateSummaryFails
    \/ CatchWriteOk
    \/ CatchWriteFails
    \/ FinishOk
    \/ FinishFails
    \/ Interrupt
    \/ InterruptWrite
    \/ Exit

Spec == Init /\ [][Next]_vars

\* A step of a run in progress. The process runs one statement after the
\* other and every provider call returns or throws, so a run that is not
\* killed keeps taking steps
Step ==
    \/ StartCall
    \/ CallProvider
    \/ WriteProgressOk
    \/ WriteProgressFails
    \/ UpdateSummaryOk
    \/ UpdateSummaryFails
    \/ CatchWriteOk
    \/ CatchWriteFails
    \/ FinishOk
    \/ FinishFails

----------------------------------------------------------------------------
(* The scorer functions on their own *)

\* The result the loop body records for one analysis
loopResult(keyword, analysis) ==
    IF analysis.raised
    THEN failureResult(keyword, analysis.message)
    ELSE keywordResult(keyword, analysis.value)

ScorerInit ==
    /\ keywords = <<>>
    /\ progressFile = AbsentFile
    /\ summaryFile = NoSummary
    /\ finalFile = NoFinal
    /\ results = <<>>
    /\ i = 0
    /\ pc = "idle"
    /\ loaded = AbsentFile
    /\ calls = <<>>
    /\ writeFailure = NoWriteFailure
    /\ runs = 0
    /\ faults = 0
    /\ events = <<>>
    /\ scorerIn \in ScorerArgs
    /\ scorerOut = NotApplied
    /\ fnArg = NoList
    /\ fnRet = NotRun
    /\ WebIdle

ApplyGetRecommendation ==
    /\ scorerOut = NotApplied
    /\ scorerIn.kind = "scores"
    /\ scorerIn.traffic # Null
    /\ scorerIn.difficulty # Null
    /\ scorerOut' = [NotApplied EXCEPT
         !.fn = "getRecommendation",
         !.recommendation =
             getRecommendation(Val(scorerIn.traffic), Val(scorerIn.difficulty))]
    /\ UNCHANGED <<pvars, wvars, scorerIn, fvars>>

ApplyCalculateOpportunityScore ==
    /\ scorerOut = NotApplied
    /\ scorerIn.kind = "scores"
    /\ scorerOut' = [NotApplied EXCEPT
         !.fn = "calculateOpportunityScore",
         !.opportunity = calculateOpportunityScore(scorerIn.traffic, scorerIn.difficulty)]
    /\ UNCHANGED <<pvars, wvars, scorerIn, fvars>>

ApplyAnalyzeKeyword ==
    /\ scorerOut = NotApplied
    /\ scorerIn.kind = "response"
    /\ LET analysis == analyzeKeyword(1, scorerIn.response)
       IN scorerOut' = [NotApplied EXCEPT
            !.fn = "analyzeKeyword",
            !.analysis = analysis,
            !.result = loopResult(1, analysis)]
    /\ UNCHANGED <<pvars, wvars, scorerIn, fvars>>

\* The same provider response scored by the command line and by the route
ApplyRouteAnalyzeKeyword ==
    /\ scorerOut = NotApplied
    /\ scorerIn.kind = "response"
    /\ LET analysis == analyzeKeyword(1, scorerIn.response)
       IN scorerOut' = [NotApplied EXCEPT
            !.fn = "routeAnalyzeKeyword",
            !.analysis = analysis,
            !.result = loopResult(1, analysis),
            !.route = routeAnalyzeKeyword(scorerIn.response)]
    /\ UNCHANGED <<pvars, wvars, scorerIn, fvars>>

ScorerNext ==
    \/ ApplyGetRecommendation
    \/ ApplyCalculateOpportunityScore
    \/ ApplyAnalyzeKeyword
    \/ ApplyRouteAnalyzeKeyword

ScorerSpec == ScorerInit /\ [][ScorerNext]_vars

----------------------------------------------------------------------------
(* Ranking on its own *)

\* What the provider answers to the keywords of a result list: a failure and
\* scores of opportunity 50 (consider), 90 (excellent) and 36 (good)
RankResponses ==
    { Throws("Request failed"), Scores(500, 500), Scores(900, 100), Scores(200, 400) }

\* The results array after the loop analysed keywords 1..n in order
resultsOf(responses) ==
    [k \in 1..Len(responses) |-> loopResult(k, analyzeKeyword(k, responses[k]))]

RankArgs ==
    UNION { { [kind |-> "results", list |-> resultsOf(responses), suggestions |-> <<>>] :
                responses \in [1..n -> RankResponses] } : n \in 0..MaxResults }

RankInit ==
    /\ keywords = <<>>
    /\ progressFile = AbsentFile
    /\ summaryFile = NoSummary
    /\ finalFile = NoFinal
    /\ results = <<>>
    /\ i = 0
    /\ pc = "idle"
    /\ loaded = AbsentFile
    /\ calls = <<>>
    /\ writeFailure = NoWriteFailure
    /\ runs = 0
    /\ faults = 0
    /\ events = <<>>
    /\ scorerIn = NoArgs
    /\ scorerOut = NotApplied
    /\ fnArg \in RankArgs
    /\ fnRet = NotRun
    /\ WebIdle

ApplySortedResults ==
    /\ fnRet = NotRun
    /\ fnArg.kind = "results"
    /\ fnRet' = [NotRun EXCEPT !.fn = "sortedResults", !.out = sortedResults(fnArg.list)]
    /\ UNCHANGED <<pvars, wvars, scorerIn, scorerOut, fnArg>>

\* updateSummaryFile on the results array of the loop
ApplyGenerateSummaryText ==
    /\ fnRet = NotRun
    /\ fnArg.kind = "results"
    /\ fnRet' = [NotRun EXCEPT !.fn = "generateSummaryText",
                               !.out = topOpportunities(fnArg.list),
                               !.combined = worthConsidering(fnArg.list)]
    /\ UNCHANGED <<pvars, wvars, scorerIn, scorerOut, fnArg>>

\* generateSummaryData on the results array of the loop: its summary
ApplyGenerateSummaryData ==
    /\ fnRet = NotRun
    /\ fnArg.kind = "results"
    /\ fnRet' = [NotRun EXCEPT !.fn = "generateSummaryData",
                               !.out = <<summaryCounts(fnArg.list)>>]
    /\ UNCHANGED <<pvars, wvars, scorerIn, scorerOut, fnArg>>

RankNext ==
    \/ ApplySortedResults
    \/ ApplyGenerateSummaryData
    \/ ApplyGenerateSummaryText

RankSpec == RankInit /\ [][RankNext]_vars

----------------------------------------------------------------------------
(* Keyword deduplication on its own *)

\* Raw keywords as a generator or the suggestion service may return them:
\* "", " ", "a", "A", tab "a" space, "a b", "A  b", "a" space tab space "B",
\* "b a", "ab"
RawKeywords ==
    { <<>>, <<" ">>, <<"a">>, <<"A">>, <<"\t", "a", " ">>, <<"a", " ", "b">>,
      <<"A", " ", " ", "b">>, <<"a", " ", "\t", " ", "B">>, <<"b", " ", "a">>,
      <<"a", "b">> }

\* The first cut strings are the generated keywords, the others are what the
\* suggestion service returned
dedupArg(strings, cut) ==
    [kind |-> "keywords", list |-> SubSeq(strings, 1, cut),
     suggestions |-> SubSeq(strings, cut + 1, Len(strings))]

DedupInit ==
    /\ keywords = <<>>
    /\ progressFile = AbsentFile
    /\ summaryFile = NoSummary
    /\ finalFile = NoFinal
    /\ results = <<>>
    /\ i = 0
    /\ pc = "idle"
    /\ loaded = AbsentFile
    /\ calls = <<>>
    /\ writeFailure = NoWriteFailure
    /\ runs = 0
    /\ faults = 0
    /\ events = <<>>
    /\ scorerIn = NoArgs
    /\ scorerOut = NotApplied
    /\ \E n \in 0..MaxRawKeywords : \E strings \in [1..n -> RawKeywords] :
         \E cut \in 0..n : fnArg = dedupArg(strings, cut)
    /\ fnRet = NotRun
    /\ WebIdle

\* generateAppKeywords: allKeywords from allRawKeywords
ApplyDeduplicateKeywords ==
    /\ fnRet = NotRun
    /\ fnArg.kind = "keywords"
    /\ fnArg.suggestions = <<>>
    /\ fnRet' = [NotRun EXCEPT !.fn = "deduplicateKeywords",
                               !.out = deduplicateKeywords(fnArg.list)]
    /\ UNCHANGED <<pvars, wvars, scorerIn, scorerOut, fnArg>>

\* analyzeApp steps 2 and 3: allKeywords, then combinedKeywords
ApplyCombinedKeywords ==
    /\ fnRet = NotRun
    /\ fnArg.kind = "keywords"
    /\ fnRet' = [NotRun EXCEPT !.fn = "combinedKeywords",
                               !.out = deduplicateKeywords(fnArg.list),
                               !.combined = combinedKeywords(fnArg.list, fnArg.suggestions)]
    /\ UNCHANGED <<pvars, wvars, scorerIn, scorerOut, fnArg>>

DedupNext ==
    \/ ApplyDeduplicateKeywords
    \/ ApplyCombinedKeywords

DedupSpec == DedupInit /\ [][DedupNext]_vars

----------------------------------------------------------------------------
(* Web application: the database, the analyze route and the import route *)

nextAppId(table) == table.seeded + Len(table.rows) + 1

insertApp(table, appStoreId, title) ==
    [table EXCEPT !.rows = Append(@, [id |-> nextAppId(table),
                                      appStoreId |-> appStoreId,
                                      title |-> title])]

\* String(numericId), and `imported-${Date.now()}-${random}` of the n-th row
storeId(numericId) == <<"store", numericId>>
importedId(n) == <<"imported", n>>

\* db.select().from(apps).where(eq(apps.appStoreId, String(numericId))).limit(1)
selectByAppStoreId(table, appStoreId) ==
    LET found == SelectSeq(table.rows, LAMBDA a : a.appStoreId = appStoreId)
    IN SubSeq(found, 1, IF found = <<>> THEN 0 ELSE 1)

\* db.select().from(apps).limit(n): the first n rows of the table, of which
\* the seeded rows come first
selectLimit(table, n) ==
    LET shown == IF n > table.seeded THEN n - table.seeded ELSE 0
    IN SubSeq(table.rows, 1, IF Len(table.rows) < shown THEN Len(table.rows) ELSE shown)

\* The rows of other apps in the apps table: none, or as many as a select of
\* the import route reads
SeededApps == { 0, SelectLimit }

\* The request body of POST /api/analyze: appStoreId given or not, and what
\* parseInt makes of it (Null is NaN)
AnalyzeBodies ==
    { [given |-> FALSE, numericId |-> Null],
      [given |-> TRUE, numericId |-> Null],
      [given |-> TRUE, numericId |-> Some(1)] }

validBody(body) == body.given /\ body.numericId # Null

\* The title app-store-scraper returns for an app ID
storeTitle(numericId) == numericId

\* What the provider answers to the generated keyword k
answerTo(k) == IF k % 2 = 1 THEN Scores(900, 100) ELSE Throws("Request failed")

\* A response of a route; appsInserted and keywordsInserted count the rows the
\* handler inserted
reply(route, status, numericId, error) ==
    [route |-> route, status |-> status, appStoreId |-> numericId, error |-> error,
     imported |-> <<>>, skipped |-> <<>>, errors |-> <<>>,
     appsInserted |-> 0, keywordsInserted |-> 0]

\* keywordData of the analyze route
keywordData(appId, keyword, analysis) ==
    [appId |-> appId,
     keyword |-> keyword,
     traffic |-> IF analysis.isNull THEN Null ELSE Some(analysis.traffic),
     difficulty |-> IF analysis.isNull THEN Null ELSE Some(analysis.difficulty),
     opportunity |-> IF analysis.isNull THEN Null ELSE Some(analysis.opportunity),
     recommendation |->
         IF analysis.isNull THEN "analysis_failed" ELSE analysis.recommendation,
     analysisSucceeded |-> ~analysis.isNull]

\* The folders of the results directory. Folder f holds the files of the app
\* titled f: no final artifact, a final file without appData, or the final
\* artifact of a run
NoFinalFile == [final |-> FALSE, appData |-> Null, data |-> NoFinal]
InvalidFinal == [final |-> TRUE, appData |-> Null, data |-> NoFinal]
Artifact(title, res) ==
    [final |-> TRUE, appData |-> Some(title),
     data |-> finalData(res, [k \in 1..Len(res) |-> k], 1)]

folderOf(kind, f) ==
    CASE kind = "none" -> NoFinalFile
      [] kind = "invalid" -> InvalidFinal
      [] kind = "empty" -> Artifact(f, <<>>)
      [] OTHER -> Artifact(f, resultsOf(<<Throws("Request failed"), Scores(900, 100)>>))

FolderKinds == { "none", "invalid", "empty", "full" }

\* keywordInserts of the import route
keywordInsert(appId, kw) ==
    [appId |-> appId,
     keyword |-> kw.keyword,
     traffic |-> kw.traffic,
     difficulty |-> kw.difficulty,
     opportunity |-> kw.opportunity,
     recommendation |-> kw.recommendation,
     analysisSucceeded |-> kw.analysisSucceeded]

\* The loop of the import route over the folders from f on; db.insert(keywords)
\* throws for the folders in `failing`
RECURSIVE importFolders(_, _, _, _)
importFolders(folders, f, failing, acc) ==
    IF f > Len(folders)
    THEN acc
    ELSE LET folder == folders[f]
             existingApps == selectLimit(acc.apps, SelectLimit)
             exists == \E a \in 1..Len(existingApps) :
                           existingApps[a].title = Val(folder.appData)
             inserted == insertApp(acc.apps, importedId(nextAppId(acc.apps)),
                                   Val(folder.appData))
             rows == [k \in 1..Len(folder.data.results) |->
                         keywordInsert(nextAppId(acc.apps), folder.data.results[k])]
             next ==
                 IF ~folder.final
                 THEN [acc EXCEPT !.skipped = Append(@, [folder |-> f, exists |-> FALSE])]
                 ELSE IF folder.appData = Null
                 THEN [acc EXCEPT !.errors = Append(@, f)]
                 ELSE IF exists
                 THEN [acc EXCEPT !.skipped = Append(@, [folder |-> f, exists |-> TRUE])]
                 ELSE IF rows # <<>> /\ f \in failing
                 THEN [acc EXCEPT !.apps = inserted, !.errors = Append(@, f)]
                 ELSE [acc EXCEPT !.apps = inserted,
                                  !.keywords = @ \o rows,
                                  !.imported = Append(@, [folder |-> f,
                                                          appId |-> nextAppId(acc.apps),
                                                          keywords |-> Len(rows)])]
         IN importFolders(folders, f + 1, failing, next)

\* POST /api/analyze without an appStoreId or with one that is not a number
PostAnalyzeInvalid ==
    /\ request.pc = "none"
    /\ Len(replies) < MaxRequests
    /\ \E body \in AnalyzeBodies :
         /\ ~validBody(body)
         /\ replies' = Append(replies,
                reply("analyze", 400, 0,
                      IF ~body.given THEN "appStoreId is required"
                      ELSE "appStoreId must be a number"))
    /\ UNCHANGED <<pvars, scorerIn, scorerOut, fvars, appsTable, keywordsTable,
                   resultsDir, request>>

\* POST /api/analyze of an app that has a row
PostAnalyzeExists ==
    /\ request.pc = "none"
    /\ Len(replies) < MaxRequests
    /\ \E body \in AnalyzeBodies :
         /\ validBody(body)
         /\ selectByAppStoreId(appsTable, storeId(Val(body.numericId))) # <<>>
         /\ replies' = Append(replies, reply("analyze", 409, Val(body.numericId),
                                             "App already analyzed"))
    /\ UNCHANGED <<pvars, scorerIn, scorerOut, fvars, appsTable, keywordsTable,
                   resultsDir, request>>

\* POST /api/analyze of an app that has no row: the handler awaits getAppData
PostAnalyzeStart ==
    /\ request.pc = "none"
    /\ Len(replies) < MaxRequests
    /\ \E body \in AnalyzeBodies :
         /\ validBody(body)
         /\ selectByAppStoreId(appsTable, storeId(Val(body.numericId))) = <<>>
         /\ request' = [NoRequest EXCEPT !.pc = "fetch", !.numericId = Val(body.numericId)]
    /\ UNCHANGED <<pvars, scorerIn, scorerOut, fvars, appsTable, keywordsTable,
                   resultsDir, replies>>

\* getAppData throws: the catch block answers 500
GetAppDataFails ==
    /\ request.pc = "fetch"
    /\ replies' = Append(replies, reply("analyze", 500, request.numericId, "App not found"))
    /\ request' = NoRequest
    /\ UNCHANGED <<pvars, scorerIn, scorerOut, fvars, appsTable, keywordsTable, resultsDir>>

\* getAppData returns and the app row is inserted
InsertApp ==
    /\ request.pc = "fetch"
    /\ appsTable' = insertApp(appsTable, storeId(request.numericId),
                              storeTitle(request.numericId))
    /\ request' = [request EXCEPT !.pc = "generate", !.newApp = nextAppId(appsTable)]
    /\ UNCHANGED <<pvars, scorerIn, scorerOut, fvars, keywordsTable, resultsDir, replies>>

\* generateKeywordsForApp throws: the catch block answers 500
GenerateKeywordsFails ==
    /\ request.pc = "generate"
    /\ replies' = Append(replies, reply("analyze", 500, request.numericId,
                                     "Failed to parse keywords from AI response"))
    /\ request' = NoRequest
    /\ UNCHANGED <<pvars, scorerIn, scorerOut, fvars, appsTable, keywordsTable, resultsDir>>

\* generateKeywordsForApp returns keywords 1..n and the loop analyses them
AnalyzeGeneratedKeywords ==
    /\ request.pc = "generate"
    /\ \E n \in 0..MaxGenerated :
         request' = [request EXCEPT
             !.pc = "save",
             !.keywordResults =
                 [k \in 1..n |->
                     keywordData(request.newApp, k, routeAnalyzeKeyword(answerTo(k)))]]
    /\ UNCHANGED <<pvars, scorerIn, scorerOut, fvars, appsTable, keywordsTable,
                   resultsDir, replies>>

\* db.insert(keywords) throws: the catch block answers 500
InsertKeywordsFails ==
    /\ request.pc = "save"
    /\ request.keywordResults # <<>>
    /\ replies' = Append(replies, reply("analyze", 500, request.numericId, "database is locked"))
    /\ request' = NoRequest
    /\ UNCHANGED <<pvars, scorerIn, scorerOut, fvars, appsTable, keywordsTable, resultsDir>>

\* The keyword rows are saved and the handler answers success
InsertKeywords ==
    /\ request.pc = "save"
    /\ keywordsTable' = keywordsTable \o request.keywordResults
    /\ replies' = Append(replies,
           [reply("analyze", 200, request.numericId, "") EXCEPT
               !.appsInserted = 1,
               !.keywordsInserted = Len(request.keywordResults)])
    /\ request' = NoRequest
    /\ UNCHANGED <<pvars, scorerIn, scorerOut, fvars, appsTable, resultsDir>>

\* POST /api/import without a results directory
PostImportNotFound ==
    /\ request.pc = "none"
    /\ Len(replies) < MaxRequests
    /\ ~resultsDir.exists
    /\ replies' = Append(replies, reply("import", 404, 0, "Results directory not found"))
    /\ UNCHANGED <<pvars, scorerIn, scorerOut, fvars, appsTable, keywordsTable,
                   resultsDir, request>>

\* POST /api/import: the whole loop over the folders
PostImport ==
    /\ request.pc = "none"
    /\ Len(replies) < MaxRequests
    /\ resultsDir.exists
    /\ \E failing \in SUBSET (1..Len(resultsDir.folders)) :
         LET done == importFolders(resultsDir.folders, 1, failing,
                         [apps |-> appsTable, keywords |-> keywordsTable,
                          imported |-> <<>>, skipped |-> <<>>, errors |-> <<>>])
         IN /\ appsTable' = done.apps
            /\ keywordsTable' = done.keywords
            /\ replies' = Append(replies,
                   [reply("import", 200, 0, "") EXCEPT
                       !.imported = done.imported,
                       !.skipped = done.skipped,
                       !.errors = done.errors,
                       !.appsInserted = Len(done.apps.rows) - Len(appsTable.rows),
                       !.keywordsInserted = Len(done.keywords) - Len(keywordsTable)])
    /\ UNCHANGED <<pvars, scorerIn, scorerOut, fvars, resultsDir, request>>

\* The database holds the rows of other apps or none, and the results
\* directory is missing or holds folders of the kinds above
WebInit ==
    /\ keywords = <<>>
    /\ progressFile = AbsentFile
    /\ summaryFile = NoSummary
    /\ finalFile = NoFinal
    /\ results = <<>>
    /\ i = 0
    /\ pc = "idle"
    /\ loaded = AbsentFile
    /\ calls = <<>>
    /\ writeFailure = NoWriteFailure
    /\ runs = 0
    /\ faults = 0
    /\ events = <<>>
    /\ scorerIn = NoArgs
    /\ scorerOut = NotApplied
    /\ fnArg = NoList
    /\ fnRet = NotRun
    /\ \E seeded \in SeededApps : appsTable = emptyApps(seeded)
    /\ keywordsTable = <<>>
    /\ \/ resultsDir = NoDirectory
       \/ \E n \in 0..MaxFolders : \E kinds \in [1..n -> FolderKinds] :
            resultsDir = [exists |-> TRUE,
                          folders |-> [f \in 1..n |-> folderOf(kinds[f], f)]]
    /\ request = NoRequest
    /\ replies = <<>>

WebNext ==
    \/ PostAnalyzeInvalid
    \/ PostAnalyzeExists
    \/ PostAnalyzeStart
    \/ GetAppDataFails
    \/ InsertApp
    \/ GenerateKeywordsFails
    \/ AnalyzeGeneratedKeywords
    \/ InsertKeywordsFails
    \/ InsertKeywords
    \/ PostImportNotFound
    \/ PostImport

WebSpec == WebInit /\ [][WebNext]_vars

----------------------------------------------------------------------------
(* One run of analyzeAllKeywords to its end *)

\* The progress file a run can find: none, one that does not parse, or the
\* checkpoint an earlier run wrote after the first n keywords of its list
PriorProgress ==
    { AbsentFile, CorruptFile }
        \cup UNION { { progressData(n - 1, allKeywords,
                           [k \in 1..n |->
                               loopResult(allKeywords[k],
                                          analyzeKeyword(allKeywords[k],
                                                         Scores(900, 100)))]) :
                         n \in 1..Len(allKeywords) } : allKeywords \in KeywordLists }

FairInit ==
    /\ keywords = <<>>
    /\ progressFile \in PriorProgress
    /\ summaryFile = NoSummary
    /\ finalFile = NoFinal
    /\ results = <<>>
    /\ i = 0
    /\ pc = "idle"
    /\ loaded = AbsentFile
    /\ calls = <<>>
    /\ writeFailure = NoWriteFailure
    /\ runs = 0
    /\ faults = 0
    /\ events = <<>>
    /\ scorerIn = NoArgs
    /\ scorerOut = NotApplied
    /\ fnArg = NoList
    /\ fnRet = NotRun
    /\ WebIdle

\* The run is not killed: it starts and takes its steps
FairNext ==
    \/ StartRun
    \/ Step

FairSpec == FairInit /\ [][FairNext]_vars /\ WF_vars(Step)

----------------------------------------------------------------------------
(* Properties *)

SeqRange(s) == { s[j] : j \in 1..Len(s) }

Resumed == loaded.state = "checkpoint"

\* C1: every checkpoint written holds exactly lastAnalyzedIndex + 1 results.
C1_CheckpointLength ==
    progressFile.state = "checkpoint"
        => Len(progressFile.results) = progressFile.lastAnalyzedIndex + 1

\* C2: once a checkpoint write has failed the run is aborted at once: nothing
\* more is appended, no provider call follows, and the file is as it was.
C2_WriteFailureIsFatal ==
    writeFailure.failed
        => /\ pc = "aborted"
           /\ results = writeFailure.results
           /\ progressFile = writeFailure.file
           /\ Len(calls) = writeFailure.nCalls

\* C3: a run resumed from a checkpoint with lastAnalyzedIndex = k calls the
\* provider for k+1, k+2, ... in this order, once each, never beyond n-1; a
\* completed run has called all of them; with k+1 >= n it calls nothing and is
\* at the end of the loop.
C3_ResumeCallsOnlyRemaining ==
    (Resumed /\ pc # "idle")
        => LET k == loaded.lastAnalyzedIndex
               n == Len(keywords)
           IN /\ \A j \in 1..Len(calls) : calls[j][1] = k + j /\ calls[j][1] <= n - 1
              /\ pc = "completed"
                    => Len(calls) = (IF k + 1 >= n THEN 0 ELSE n - (k + 1))
              /\ k + 1 >= n
                    => /\ calls = <<>>
                       /\ pc \in {"loop", "completed", "aborted"}
                       /\ results = loaded.results

C3_Witness ==
    /\ Resumed
    /\ loaded.lastAnalyzedIndex = 0
    /\ Len(keywords) = 3
    /\ pc = "completed"
    /\ Len(calls) = 2
    /\ calls[1][1] = 1
    /\ calls[2][1] = 2

\* C4: a completed run that resumed from a checkpoint of the same keyword list
\* holds totalKeywords results, the loaded ones unchanged at the front.
C4_ResumedRunLength ==
    (Resumed /\ pc = "completed" /\ loaded.totalKeywords = Len(keywords))
        => /\ Len(results) = Len(keywords)
           /\ SubSeq(results, 1, Len(loaded.results)) = loaded.results

\* C5: in a fresh run with no storage failure, provider failures never stop the
\* loop: each call leaves exactly one result for its keyword, failed exactly
\* when the provider call failed, and the completed run holds one result per
\* keyword.
C5_FaultIsolation ==
    (~Resumed /\ faults = 0 /\ pc # "idle")
        => /\ pc # "aborted"
           /\ Len(results) = Len(calls)
           /\ \A j \in 1..Len(results) :
                /\ results[j].keyword = keywords[j]
                /\ calls[j][1] = j - 1
                /\ results[j].analysisSucceeded = ~providerFailed(calls[j][2])
                /\ (results[j].recommendation = "analysis_failed")
                      <=> providerFailed(calls[j][2])
           /\ pc = "completed" => Len(results) = Len(keywords)

C5_Witness ==
    /\ ~Resumed
    /\ faults = 0
    /\ pc = "completed"
    /\ Len(keywords) = 3
    /\ Len(results) = 3
    /\ ~results[1].analysisSucceeded
    /\ results[2].analysisSucceeded
    /\ results[3].analysisSucceeded

\* C6: analyzeKeyword never raises, and every provider failure gives a result
\* with analysisSucceeded = false.
C6_AnalyzeKeywordNeverRaises ==
    scorerOut.fn = "analyzeKeyword"
        => /\ ~scorerOut.analysis.raised
           /\ scorerOut.analysis.value.keyword = 1
           /\ providerFailed(scorerIn.response)
                 => scorerOut.analysis.value.analysisSucceeded = FALSE

C6_Witness ==
    /\ scorerOut.fn = "analyzeKeyword"
    /\ scorerIn.response.threw
    /\ ~scorerOut.analysis.raised
    /\ scorerOut.analysis.value.analysisSucceeded = FALSE

StoredResults == SeqRange(progressFile.results) \cup SeqRange(finalFile.results)

\* C7: in every checkpoint and final artifact, opportunity is non-null exactly
\* when traffic and difficulty are non-null and analysisSucceeded is true.
C7_OpportunityIffScored ==
    \A r \in StoredResults :
        (r.opportunity # Null)
            <=> (r.traffic # Null /\ r.difficulty # Null /\ r.analysisSucceeded = TRUE)

C7_Witness ==
    /\ finalFile.state = "written"
    /\ \E r \in SeqRange(finalFile.results) : r.opportunity = Some(78)
    /\ \E r \in SeqRange(finalFile.results) :
         r.opportunity = Null /\ r.error = "Request failed"

\* C8: for every result produced, recommendation is analysis_failed exactly when
\* analysisSucceeded is false, and a failed result has null traffic, difficulty
\* and opportunity.
C8_FailedIffAnalysisFailed ==
    \A r \in SeqRange(results) \cup StoredResults :
        /\ (r.recommendation = "analysis_failed") <=> (r.analysisSucceeded = FALSE)
        /\ r.analysisSucceeded = FALSE
              => r.traffic = Null /\ r.difficulty = Null /\ r.opportunity = Null

C8_Witness ==
    /\ pc = "write"
    /\ results # <<>>
    /\ results[Len(results)].recommendation = "analysis_failed"
    /\ results[Len(results)].analysisSucceeded = FALSE
    /\ \E r \in SeqRange(progressFile.results) : r.recommendation = "excellent"

C10_OpportunityFormula ==
    scorerOut.fn = "calculateOpportunityScore"
        => IF scorerIn.traffic = Null \/ scorerIn.difficulty = Null
           THEN scorerOut.opportunity = Null
           ELSE LET tenths == 6 * Val(scorerIn.traffic)
                                + 4 * (100 - Val(scorerIn.difficulty))
                IN /\ scorerOut.opportunity # Null
                   /\ Val(scorerOut.opportunity) \in 0..100
                   /\ 10 * Val(scorerOut.opportunity) - 5 <= tenths
                   /\ tenths < 10 * Val(scorerOut.opportunity) + 5
                   /\ (scorerIn.traffic = Some(85) /\ scorerIn.difficulty = Some(32))
                         => scorerOut.opportunity = Some(78)

C10_Witness ==
    /\ scorerOut.fn = "calculateOpportunityScore"
    /\ scorerIn.traffic = Some(85)
    /\ scorerIn.difficulty = Some(32)
    /\ scorerOut.opportunity = Some(78)

\* Position of a result in a list of results with distinct keywords
posIn(list, r) == CHOOSE j \in 1..Len(list) : list[j] = r

succeeded(r) == r.analysisSucceeded # FALSE

\* The list [opportunity 50, failed, opportunity 90] of the ranking example
RankExample ==
    resultsOf(<<Scores(500, 500), Throws("Request failed"), Scores(900, 100)>>)

\* C11: the ranked list is a permutation of the results; the succeeded results
\* come first, by opportunity descending and, for equal opportunity, in their
\* original order; the failed results follow in their original order; so
\* [50, failed, 90] is ranked [90, 50, failed].
C11_RankingOrder ==
    fnRet.fn = "sortedResults" =>
        LET in == fnArg.list
            out == fnRet.out
        IN /\ Len(out) = Len(in)
           /\ SeqRange(out) = SeqRange(in)
           /\ \A p \in 1..Len(out) : \A q \in (p + 1)..Len(out) :
                /\ succeeded(out[q]) => succeeded(out[p])
                /\ (succeeded(out[p]) /\ succeeded(out[q])) =>
                      \/ Val(out[p].opportunity) > Val(out[q].opportunity)
                      \/ /\ out[p].opportunity = out[q].opportunity
                         /\ posIn(in, out[p]) < posIn(in, out[q])
                /\ (~succeeded(out[p]) /\ ~succeeded(out[q])) =>
                      posIn(in, out[p]) < posIn(in, out[q])
           /\ in = RankExample =>
                out = <<RankExample[3], RankExample[1], RankExample[2]>>

\* A list with two succeeded results of equal opportunity behind a failed one
\* has been ranked
C11_Witness ==
    /\ fnRet.fn = "sortedResults"
    /\ Len(fnArg.list) = MaxResults
    /\ ~succeeded(fnArg.list[1])
    /\ \E p \in 2..Len(fnArg.list) : \E q \in (p + 1)..Len(fnArg.list) :
         /\ succeeded(fnArg.list[p]) /\ succeeded(fnArg.list[q])
         /\ fnArg.list[p].opportunity = fnArg.list[q].opportunity
    /\ fnRet.out # fnArg.list

\* The words of a string: its maximal runs of characters that are not
\* whitespace, in order
RECURSIVE wordsOf(_)
wordsOf(str) ==
    LET rest == trimStart(str)
    IN IF rest = <<>> THEN <<>>
       ELSE LET k == CHOOSE k \in 1..Len(rest) :
                       /\ \A j \in 1..k : ~isSpace(rest[j])
                       /\ k = Len(rest) \/ isSpace(rest[k + 1])
            IN <<SubSeq(rest, 1, k)>> \o wordsOf(SubSeq(rest, k + 1, Len(rest)))

RECURSIVE joinWords(_)
joinWords(ws) ==
    IF ws = <<>> THEN <<>>
    ELSE IF Len(ws) = 1 THEN ws[1]
    ELSE ws[1] \o <<" ">> \o joinWords(Tail(ws))

\* Lowercase, trimmed, whitespace runs collapsed to one space
normalForm(str) == joinWords(wordsOf(toLowerCase(str)))

firstOccurrence(list, entry) ==
    CHOOSE j \in 1..Len(list) :
        /\ normalForm(list[j]) = entry
        /\ \A h \in 1..(j - 1) : normalForm(list[h]) # entry

\* C12: deduplicateKeywords returns a sequence without two equal entries and
\* without an empty entry; every entry is the normal form (lowercase, trimmed,
\* whitespace runs collapsed) of some input; every input whose normal form is
\* not empty appears; the entries are in the order in which their normal
\* forms first occur in the input.
C12_DeduplicateKeywords ==
    fnRet.fn = "deduplicateKeywords" =>
        LET in == fnArg.list
            out == fnRet.out
        IN /\ \A p \in 1..Len(out) : \A q \in 1..Len(out) : out[p] = out[q] => p = q
           /\ \A p \in 1..Len(out) : out[p] # <<>>
           /\ \A p \in 1..Len(out) : \E j \in 1..Len(in) : out[p] = normalForm(in[j])
           /\ \A j \in 1..Len(in) :
                normalForm(in[j]) # <<>> => \E p \in 1..Len(out) : out[p] = normalForm(in[j])
           /\ \A p \in 1..Len(out) : \A q \in (p + 1)..Len(out) :
                firstOccurrence(in, out[p]) < firstOccurrence(in, out[q])

\* A list with two different spellings of one keyword and a blank entry has
\* been deduplicated to that keyword alone
C12_Witness ==
    /\ fnRet.fn = "deduplicateKeywords"
    /\ \E p \in 1..Len(fnArg.list) : \E q \in 1..Len(fnArg.list) :
         /\ fnArg.list[p] # fnArg.list[q]
         /\ normalForm(fnArg.list[p]) = normalForm(fnArg.list[q])
         /\ Len(wordsOf(fnArg.list[p])) > 1
    /\ \E r \in 1..Len(fnArg.list) :
         fnArg.list[r] # <<>> /\ normalForm(fnArg.list[r]) = <<>>
    /\ Len(fnRet.out) = 1

\* C13: deduplicateKeywords is idempotent, deduplicating its own output
\* returns that output; and in analyzeApp the already deduplicated generated
\* keywords stay, in their order, at the head of the combined keywords.
C13_DeduplicateIdempotent ==
    fnRet.fn = "combinedKeywords" =>
        /\ fnArg.suggestions = <<>> => fnRet.combined = fnRet.out
        /\ Len(fnRet.combined) >= Len(fnRet.out)
        /\ SubSeq(fnRet.combined, 1, Len(fnRet.out)) = fnRet.out

\* Keywords that the first deduplication changed and shortened have been
\* deduplicated a second time
C13_Witness ==
    /\ fnRet.fn = "combinedKeywords"
    /\ fnArg.suggestions = <<>>
    /\ Len(fnArg.list) = MaxRawKeywords
    /\ Len(fnRet.out) = MaxRawKeywords - 1
    /\ \A p \in 1..Len(fnRet.out) : fnRet.out[p] \notin SeqRange(fnArg.list)
    /\ fnRet.combined = fnRet.out

\* Number of events of a kind among the first p events of the run
countEvents(kind, p) == Cardinality({ q \in 1..p : events[q][1] = kind })

\* C14: processing is strictly sequential. At any time at most one provider
\* call has started without having returned; a checkpoint write carrying index
\* x is issued only after a result for x was appended; and a provider call for
\* x + 1 starts only after a checkpoint write carrying x was issued.
C14_StrictlySequential ==
    /\ \A p \in 0..Len(events) :
         countEvents("call", p) - countEvents("return", p) \in {0, 1}
    /\ \A p \in 1..Len(events) :
         events[p][1] = "write" =>
            \E q \in 1..(p - 1) : events[q] = <<"append", events[p][2]>>
    /\ \A p \in 1..Len(events) :
         (events[p][1] = "call" /\ events[p][2] > loadProgress(loaded).startIndex) =>
            \E q \in 1..(p - 1) : \E a \in 1..(q - 1) :
                /\ events[q] = <<"write", events[p][2] - 1>>
                /\ events[a] = <<"append", events[p][2] - 1>>

\* The call for the second keyword has started in a run whose first checkpoint
\* write failed
C14_Witness ==
    /\ pc = "calling"
    /\ i = 1
    /\ ~Resumed
    /\ writeFailure.failed
    /\ Len(events) > 5

\* C15: a run that finds no progress file, or one that does not parse, does
\* not abort: once its app ID is accepted, it enters the loop with an empty
\* result list at index 0.
C15_FreshStart ==
    [][(pc = "idle" /\ pc' \notin {"idle", "rejected"}
            /\ progressFile.state # "checkpoint") =>
          (pc' = "loop" /\ results' = <<>> /\ i' = 0)]_vars

\* A run that found a progress file it could not parse has made its first
\* provider call, for index 0
C15_Witness ==
    /\ loaded.state = "corrupt"
    /\ pc = "write"
    /\ Len(results) = 1
    /\ events[1] = <<"call", 0>>

\* C16: a resumed run continues a checkpoint of its own keyword list. In a
\* resumed run without storage failures whose list is as long as the one the
\* checkpoint was written for, the result at every index up to the loaded
\* lastAnalyzedIndex is the result of the keyword at that index of the current
\* list, and the completed run holds exactly one result per keyword of the
\* current list, in order.
C16_CheckpointMatchesKeywords ==
    (Resumed /\ faults = 0 /\ pc # "idle" /\ loaded.totalKeywords = Len(keywords)) =>
        /\ \A j \in 1..(loaded.lastAnalyzedIndex + 1) :
             /\ j <= Len(keywords)
             /\ j <= Len(results)
             /\ results[j].keyword = keywords[j]
        /\ pc = "completed" =>
             /\ Len(results) = Len(keywords)
             /\ \A j \in 1..Len(results) : results[j].keyword = keywords[j]

\* C17: an interruption of a run, at any point and also inside a checkpoint
\* write, leaves a complete checkpoint for the next run to load: when the
\* process is killed while a checkpoint is on disk, no storage operation having
\* failed, the file is afterwards still a checkpoint and still holds every
\* result it held.
C17_InterruptKeepsCheckpoint ==
    [][(pc \in Running /\ pc' = "idle" /\ faults = 0
            /\ progressFile.state = "checkpoint") =>
          /\ progressFile'.state = "checkpoint"
          /\ Len(progressFile'.results) >= Len(progressFile.results)
          /\ SubSeq(progressFile'.results, 1, Len(progressFile.results))
                = progressFile.results]_vars

\* C18: a run with an invalid app ID or with an empty keyword list fails
\* before the loop and writes nothing: no step that refuses an app ID, and no
\* step of a run over an empty list, changes the progress file, the summary
\* file or the final file, or completes the run.
C18_InvalidInputWritesNothing ==
    [][(pc' = "rejected" \/ (pc # "idle" /\ keywords = <<>>)) =>
          /\ UNCHANGED <<progressFile, summaryFile, finalFile>>
          /\ pc' # "completed"]_vars

\* C19: the final artifact is written once and no later operation changes it.
\* Without storage failures, no step of a run over a non-empty list as long as
\* the one the final file was written for changes the final file.
C19_FinalArtifactImmutable ==
    [][(finalFile.state = "written" /\ faults = 0 /\ keywords # <<>>
            /\ Len(keywords) = finalFile.totalKeywords) =>
          finalFile' = finalFile]_vars

\* C20: the top-opportunities section of a summary report lists the excellent
\* and good results by opportunity descending, so that the medals go to the
\* highest opportunities.
C20_TopOpportunitiesDescending ==
    fnRet.fn = "generateSummaryText" =>
        \A p \in 1..Len(fnRet.out) : \A q \in (p + 1)..Len(fnRet.out) :
            Val(fnRet.out[p].opportunity) >= Val(fnRet.out[q].opportunity)

\* Number of results of a list that succeeded with a given recommendation
succeededWith(list, tier) ==
    Cardinality({ j \in 1..Len(list) : succeeded(list[j]) /\ list[j].recommendation = tier })

\* C21: a failed result is counted in failed only, never in analyzed or in a
\* tier count of a summary, and is listed neither among the top opportunities
\* nor among the keywords worth considering.
C21_FailedOnlyInFailed ==
    /\ fnRet.fn = "generateSummaryData" =>
         LET in == fnArg.list
             summary == fnRet.out[1]
         IN /\ summary.failed = Cardinality({ j \in 1..Len(in) : ~succeeded(in[j]) })
            /\ summary.analyzed = Cardinality({ j \in 1..Len(in) : succeeded(in[j]) })
            /\ summary.excellent = succeededWith(in, "excellent")
            /\ summary.good = succeededWith(in, "good")
            /\ summary.consider = succeededWith(in, "consider")
            /\ summary.challenging = succeededWith(in, "challenging")
            /\ summary.avoid = succeededWith(in, "avoid")
    /\ fnRet.fn = "generateSummaryText" =>
         /\ \A p \in 1..Len(fnRet.out) : succeeded(fnRet.out[p])
         /\ \A p \in 1..Len(fnRet.combined) : succeeded(fnRet.combined[p])

\* The summary of a list with a failed result between two succeeded ones has
\* been computed
C21_Witness ==
    /\ fnRet.fn = "generateSummaryData"
    /\ Len(fnArg.list) = MaxResults
    /\ succeeded(fnArg.list[1])
    /\ ~succeeded(fnArg.list[2])
    /\ succeeded(fnArg.list[Len(fnArg.list)])
    /\ fnRet.out[1].failed = 1

\* C22: the validation of a provider response is ordered and its first failing
\* check gives the error text: not an object, then no traffic score (also when
\* the difficulty score is missing too), then no difficulty score; in each case
\* the analysis has analysisSucceeded false, null scores and the
\* recommendation analysis_failed.
C22_ValidationOrder ==
    (scorerOut.fn = "analyzeKeyword" /\ ~scorerIn.response.threw) =>
        LET response == scorerIn.response
            value == scorerOut.analysis.value
            expected ==
                IF ~response.isObject THEN "ASO returned empty or invalid response"
                ELSE IF response.traffic = Null
                THEN "No traffic data returned - keyword may have no search volume"
                ELSE IF response.difficulty = Null
                THEN "No difficulty data returned - insufficient ranking data"
                ELSE ""
        IN IF expected = "" THEN value.analysisSucceeded = TRUE
           ELSE /\ value.error = expected
                /\ value.analysisSucceeded = FALSE
                /\ value.trafficScore = Null
                /\ value.difficultyScore = Null
                /\ value.recommendation = "analysis_failed"
                /\ scorerOut.result.error = expected
                /\ scorerOut.result.traffic = Null
                /\ scorerOut.result.difficulty = Null

\* A response that lacks both scores has been analysed and reports the missing
\* traffic score
C22_Witness ==
    /\ scorerOut.fn = "analyzeKeyword"
    /\ scorerIn.response.isObject
    /\ scorerIn.response.traffic = Null
    /\ scorerIn.response.difficulty = Null
    /\ scorerOut.analysis.value.error
         = "No traffic data returned - keyword may have no search volume"

\* C23: every result with analysisSucceeded true has traffic, difficulty and
\* opportunity in 0..100; a response with a score outside the provider's scale
\* is not accepted as a success.
C23_SucceededScoresInRange ==
    (scorerOut.fn = "analyzeKeyword" /\ scorerOut.result.analysisSucceeded = TRUE) =>
        /\ Val(scorerOut.result.traffic) \in 0..ScoreMax
        /\ Val(scorerOut.result.difficulty) \in 0..ScoreMax
        /\ Val(scorerOut.result.opportunity) \in 0..ScoreMax

\* C24: in a run the checkpoint is written exactly once for each processed
\* index. As long as no checkpoint write of the run has failed, no two writes
\* carry the same index, and the call for an index after the first of the run
\* is preceded by a write carrying the index before it.
C24_OneWritePerIndex ==
    ~writeFailure.failed =>
        /\ \A p \in 1..Len(events) : \A q \in (p + 1)..Len(events) :
             (events[p][1] = "write" /\ events[q][1] = "write") =>
                events[p][2] # events[q][2]
        /\ \A p \in 1..Len(events) :
             (events[p][1] = "call" /\ events[p][2] > loadProgress(loaded).startIndex) =>
                \E q \in 1..(p - 1) : events[q] = <<"write", events[p][2] - 1>>

\* C25: the summary report is refreshed for a processed index exactly when
\* the index closes a group of ten or is the final one; so a completed run
\* that processed the final keyword leaves a summary report of all
\* totalKeywords results. In a run that did not resume: a refresh happens only
\* for such an index, between two iterations every processed such index has
\* had its refresh, and on completion the summary file counts totalKeywords
\* results.
C25_SummaryRefresh ==
    (~Resumed /\ pc # "idle") =>
        /\ \A p \in 1..Len(events) :
             events[p][1] = "summary" => summaryDue(events[p][2], Len(keywords))
        /\ pc \in {"loop", "completed"} =>
             \A p \in 1..Len(events) :
                (events[p][1] = "call" /\ summaryDue(events[p][2], Len(keywords))) =>
                    \E q \in (p + 1)..Len(events) : events[q] = <<"summary", events[p][2]>>
        /\ (pc = "completed" /\ events # <<>>) =>
             /\ summaryFile.state = "written"
             /\ summaryFile.totalKeywords = Len(keywords)
             /\ summaryFile.analyzedSoFar = Len(keywords)

\* C26: the route's analyzeKeyword and the command line's scorer agree on every
\* provider response: they fail on the same responses, and on success they give
\* the same traffic, difficulty, opportunity and recommendation
C26_ScorersAgree ==
    scorerOut.fn = "routeAnalyzeKeyword" =>
        /\ scorerOut.route.isNull <=> ~scorerOut.result.analysisSucceeded
        /\ ~scorerOut.route.isNull =>
               /\ scorerOut.result.traffic = Some(scorerOut.route.traffic)
               /\ scorerOut.result.difficulty = Some(scorerOut.route.difficulty)
               /\ scorerOut.result.opportunity = Some(scorerOut.route.opportunity)
               /\ scorerOut.result.recommendation = scorerOut.route.recommendation

\* The counts of a summary add up
countsAddUp(summary) ==
    /\ summary.total = summary.analyzed + summary.failed
    /\ summary.analyzed = summary.excellent + summary.good + summary.consider
                              + summary.challenging + summary.avoid

\* C27: in the in-progress summary data, in the final artifact and in the
\* summary analyzeApp returns, total = analyzed + failed and analyzed is the sum
\* of the five tiers, and the final artifact's total equals its totalKeywords
C27_SummaryCounts ==
    /\ summaryFile.state = "written" => countsAddUp(summaryFile.summary)
    /\ pc = "completed" => countsAddUp(summaryCounts(sortedResults(results)))
    /\ finalFile.state = "written" =>
           /\ countsAddUp(finalFile.summary)
           /\ finalFile.summary.total = finalFile.totalKeywords

\* The last reply, when no request is being handled
lastReply == replies[Len(replies)]

\* C28: POST /api/analyze is all-or-nothing. When a step after the existence
\* check fails the request answers an error and no app row of that appStoreId
\* is left, and the retry that follows is not answered 409
C28_AnalyzeAllOrNothing ==
    /\ (/\ replies # <<>>
        /\ request.pc = "none"
        /\ lastReply.route = "analyze"
        /\ lastReply.status = 500)
       => selectByAppStoreId(appsTable, storeId(lastReply.appStoreId)) = <<>>
    /\ \A j \in 1..(Len(replies) - 1) :
         (/\ replies[j].route = "analyze"
          /\ replies[j].status = 500
          /\ replies[j + 1].route = "analyze"
          /\ replies[j + 1].appStoreId = replies[j].appStoreId)
         => replies[j + 1].status # 409

\* C29: POST /api/import is idempotent over an unchanged results directory. Of
\* two imports in a row the second inserts no app row and no keyword row and
\* reports every folder the first imported as skipped; and every app an import
\* reports as imported has the keyword rows of its final artifact
C29_ImportIdempotent ==
    /\ \A j \in 1..(Len(replies) - 1) :
         (/\ replies[j].route = "import" /\ replies[j].status = 200
          /\ replies[j + 1].route = "import" /\ replies[j + 1].status = 200)
         => /\ replies[j + 1].appsInserted = 0
            /\ replies[j + 1].keywordsInserted = 0
            /\ \A m \in 1..Len(replies[j].imported) :
                 \E k \in 1..Len(replies[j + 1].skipped) :
                     replies[j + 1].skipped[k].folder = replies[j].imported[m].folder
    /\ \A j \in 1..Len(replies) : \A m \in 1..Len(replies[j].imported) :
         LET entry == replies[j].imported[m]
             artifact == resultsDir.folders[entry.folder].data.results
             rows == SelectSeq(keywordsTable, LAMBDA r : r.appId = entry.appId)
         IN /\ Len(rows) = Len(artifact)
            /\ \A k \in 1..Len(rows) : rows[k] = keywordInsert(entry.appId, artifact[k])

\* C30: analyzeAllKeywords terminates. A run in progress eventually completes with the final artifact written or aborts with a
\* storage error, and it makes at most totalKeywords - startIndex provider
\* calls (none when the checkpoint holds more results than that)
C30_Terminates ==
    /\ [](pc # "idle" =>
            \/ calls = <<>>
            \/ Len(calls) + loadProgress(loaded).startIndex <= Len(keywords))
    /\ [](pc = "completed" => finalFile.state = "written")
    /\ (pc \in Running) ~> (pc \in {"completed", "aborted"})

C30_Witness ==
    /\ pc = "completed"
    /\ Resumed
    /\ loadProgress(loaded).startIndex = 1
    /\ Len(keywords) = 3
    /\ Len(calls) = 2
    /\ finalFile.state = "written"

====
